---- MODULE Spec2Model ----
(***************************************************************************)
(* Model of src/src/clients/retry.ts: the retry helper withRetry and its   *)
(* default predicates defaultIsRetryable, defaultGetRetryAfterMs and       *)
(* isRetryableStatusCode.                                                  *)
(*                                                                         *)
(* JavaScript values are tagged records, so that `typeof`, `??` and        *)
(* truthiness are computed as the runtime computes them.  Strings that the *)
(* code parses or searches (header values, error messages) are sequences   *)
(* of one-character strings.  Numbers are integers (the model draws no     *)
(* fractional header values); NaN, the only non-integer the code tests     *)
(* for, is its own tag.                                                    *)
(***************************************************************************)
EXTENDS Integers, Sequences, FiniteSets, TLC

(***************************************************************************)
(* Bounds of the model (not program constants).                            *)
(***************************************************************************)
\* Largest explicit maxRetries a caller passes (callers also leave it unset).
MaxRetriesBound == 2
\* The first MaxFree invocations of an operation fail in any way; a later
\* failure repeats the previous one (a new object of the same shape).
MaxFree == 2
\* Number of withRetry call slots.
NumCalls == 2

Calls == 1..NumCalls

(***************************************************************************)
(* JavaScript primitive values.                                            *)
(***************************************************************************)
JSUndefined == [t |-> "undefined", n |-> 0, s |-> <<>>]
JSNull == [t |-> "null", n |-> 0, s |-> <<>>]
JSNaN == [t |-> "NaN", n |-> 0, s |-> <<>>]
Num(n) == [t |-> "number", n |-> n, s |-> <<>>]
Str(s) == [t |-> "string", n |-> 0, s |-> s]

\* typeof v === "number" (NaN is a number)
IsNumber(v) == v.t \in {"number", "NaN"}
\* typeof v === "string"
IsString(v) == v.t = "string"
\* a ?? b
Nullish(v) == v.t \in {"undefined", "null"}
Coalesce(a, b) == IF Nullish(a) THEN b ELSE a

(***************************************************************************)
(* Thrown values.  An object or Error carries the properties the code      *)
(* probes with Reflect.get; an absent property is JSUndefined.             *)
(*   t        "object" | "error" (instanceof Error) | "string" |           *)
(*            "undefined" | "null"                                         *)
(*   headers  [t, lower, upper]: the value under "headers", with its       *)
(*            entries "retry-after" (lower) and "Retry-After" (upper)      *)
(***************************************************************************)
NoHeaders == [t |-> "undefined", lower |-> JSUndefined, upper |-> JSUndefined]
Headers(lo, up) == [t |-> "object", lower |-> lo, upper |-> up]

Thrown(t, status, code, statusCode, headers, message) ==
    [t |-> t, status |-> status, code |-> code, statusCode |-> statusCode,
     headers |-> headers, message |-> message]
PlainObject(status, code, statusCode, headers) ==
    Thrown("object", status, code, statusCode, headers, <<>>)
ErrorObject(message) ==
    Thrown("error", JSUndefined, JSUndefined, JSUndefined, NoHeaders, message)
Primitive(t) ==
    Thrown(t, JSUndefined, JSUndefined, JSUndefined, NoHeaders, <<>>)

\* error && typeof error === "object"
IsObject(e) == e.t \in {"object", "error"}

(***************************************************************************)
(* retry.ts:21-25  DEFAULT_RETRY_OPTIONS                                   *)
(***************************************************************************)
DEFAULT_maxRetries == 10
DEFAULT_initialDelayMs == 1000
DEFAULT_maxDelayMs == 30000

(***************************************************************************)
(* retry.ts:30-41  RETRYABLE_STATUS_CODES, isRetryableStatusCode           *)
(***************************************************************************)
RETRYABLE_STATUS_CODES == {408, 429, 500, 502, 503, 504}

\* Mutant: every server error from 500 to 504 is retryable.
isRetryableStatusCodeRange(statusCode) ==
    statusCode.t = "number" /\ statusCode.n \in {408, 429} \cup (500..504)

\* Mutant: every client or server error is retryable.
isRetryableStatusCodeFrom400(statusCode) ==
    statusCode.t = "number" /\ statusCode.n >= 400

\* Set.has on a number value: NaN is in no set of integers.
isRetryableStatusCode(statusCode) ==
    statusCode.t = "number" /\ statusCode.n \in RETRYABLE_STATUS_CODES

(***************************************************************************)
(* String helpers: String.prototype.toLowerCase and includes.              *)
(***************************************************************************)
UpperChars == <<"A", "B", "C", "D", "E", "F", "G", "H", "I", "J", "K", "L", "M",
                "N", "O", "P", "Q", "R", "S", "T", "U", "V", "W", "X", "Y", "Z">>
LowerChars == <<"a", "b", "c", "d", "e", "f", "g", "h", "i", "j", "k", "l", "m",
                "n", "o", "p", "q", "r", "s", "t", "u", "v", "w", "x", "y", "z">>

ToLowerChar(ch) ==
    IF \E i \in 1..Len(UpperChars) : UpperChars[i] = ch
    THEN LowerChars[CHOOSE i \in 1..Len(UpperChars) : UpperChars[i] = ch]
    ELSE ch

toLowerCase(s) == [i \in 1..Len(s) |-> ToLowerChar(s[i])]

includes(s, needle) ==
    \E i \in 1..(Len(s) - Len(needle) + 1) :
        SubSeq(s, i, i + Len(needle) - 1) = needle

RetryableMessages ==
    { <<"t", "i", "m", "e", "o", "u", "t">>,
      <<"e", "c", "o", "n", "n", "r", "e", "s", "e", "t">>,
      <<"e", "c", "o", "n", "n", "r", "e", "f", "u", "s", "e", "d">>,
      <<"s", "o", "c", "k", "e", "t", " ", "h", "a", "n", "g", " ", "u", "p">>,
      <<"n", "e", "t", "w", "o", "r", "k">>,
      <<"r", "e", "q", "u", "e", "s", "t", "_", "t", "i", "m", "e", "o", "u", "t">> }

(***************************************************************************)
(* retry.ts:46-73  defaultIsRetryable                                      *)
(***************************************************************************)
\* Mutant: the statusCode key is not probed.
defaultIsRetryableNoStatusCode(error) ==
    \/ /\ IsObject(error)
       /\ LET status == Coalesce(error.status, error.code)
          IN  IsNumber(status) /\ isRetryableStatusCode(status)
    \/ /\ error.t = "error"
       /\ \E m \in RetryableMessages : includes(toLowerCase(error.message), m)

defaultIsRetryable(error) ==
    \/ /\ IsObject(error)
       /\ LET status == Coalesce(error.status, error.code)
              statusCode == error.statusCode
          IN  \/ IsNumber(status) /\ isRetryableStatusCode(status)
              \/ IsNumber(statusCode) /\ isRetryableStatusCode(statusCode)
    \/ /\ error.t = "error"
       /\ \E m \in RetryableMessages : includes(toLowerCase(error.message), m)

(***************************************************************************)
(* Number.parseInt(s, 10): skip leading white space, take an optional      *)
(* sign, then the longest run of decimal digits; NaN when that run is      *)
(* empty.  Anything after the digits is ignored.                           *)
(***************************************************************************)
Digits == <<"0", "1", "2", "3", "4", "5", "6", "7", "8", "9">>
IsDigit(ch) == \E i \in 1..10 : Digits[i] = ch
DigitValue(ch) == (CHOOSE i \in 1..10 : Digits[i] = ch) - 1

RECURSIVE SkipSpaces(_)
SkipSpaces(s) ==
    IF s # <<>> /\ Head(s) = " " THEN SkipSpaces(Tail(s)) ELSE s

RECURSIVE DigitRun(_)
DigitRun(s) ==
    IF s # <<>> /\ IsDigit(Head(s)) THEN <<Head(s)>> \o DigitRun(Tail(s)) ELSE <<>>

RECURSIVE DecimalValue(_)
DecimalValue(ds) ==
    IF ds = <<>> THEN 0
    ELSE 10 * DecimalValue(SubSeq(ds, 1, Len(ds) - 1)) + DigitValue(ds[Len(ds)])

\* Mutant: the whole string must be an integer (as Number(s) would require).
parseIntStrict(s) ==
    LET signed == s # <<>> /\ Head(s) \in {"-", "+"}
        sign == IF s # <<>> /\ Head(s) = "-" THEN -1 ELSE 1
        body == IF signed THEN Tail(s) ELSE s
    IN  IF body = <<>> \/ DigitRun(body) # body THEN JSNaN
        ELSE Num(sign * DecimalValue(body))

parseInt(s) ==
    LET t == SkipSpaces(s)
        signed == t # <<>> /\ Head(t) \in {"-", "+"}
        sign == IF t # <<>> /\ Head(t) = "-" THEN -1 ELSE 1
        ds == DigitRun(IF signed THEN Tail(t) ELSE t)
    IN  IF ds = <<>> THEN JSNaN ELSE Num(sign * DecimalValue(ds))

\* x * 1000 on a number value
Times1000(v) == IF v.t = "NaN" THEN JSNaN ELSE Num(v.n * 1000)

(***************************************************************************)
(* retry.ts:78-100  defaultGetRetryAfterMs                                 *)
(***************************************************************************)
defaultGetRetryAfterMs(error) ==
    IF ~IsObject(error) THEN JSNull
    ELSE LET headers == error.headers
             retryAfter == Coalesce(headers.lower, headers.upper)
         IN  IF headers.t # "object" THEN JSNull
             ELSE IF IsString(retryAfter) /\ parseInt(retryAfter.s).t # "NaN"
                  THEN Times1000(parseInt(retryAfter.s))
             ELSE IF IsNumber(retryAfter) THEN Times1000(retryAfter)
             ELSE JSNull

(***************************************************************************)
(* Inputs of the model.                                                    *)
(***************************************************************************)
\* Values an operation throws.
E503 == PlainObject(Num(503), JSUndefined, JSUndefined, NoHeaders)
E404 == PlainObject(Num(404), JSUndefined, JSUndefined, NoHeaders)
\* status 503 with header retry-after: "5"
E503After5 ==
    PlainObject(Num(503), JSUndefined, JSUndefined, Headers(Str(<<"5">>), JSUndefined))
\* status 429 with header Retry-After: 60 (a number)
E429After60 ==
    PlainObject(Num(429), JSUndefined, JSUndefined, Headers(JSUndefined, Num(60)))
\* new Error("network not found") with status 404
E404Network ==
    Thrown("error", Num(404), JSUndefined, JSUndefined, NoHeaders,
           <<"n", "e", "t", "w", "o", "r", "k", " ", "n", "o", "t", " ", "f", "o", "u", "n", "d">>)
\* status 503 with header retry-after: "-1"
E503AfterMinus1 ==
    PlainObject(Num(503), JSUndefined, JSUndefined,
                Headers(Str(<<"-", "1">>), JSUndefined))
Failures == {E503, E404, E404Network, E503After5, E429After60, E503AfterMinus1}

\* Values an operation resolves with.
Values == {"v1", "v2"}

\* What a caller-supplied isRetryable does with a failure.
CustomVerdicts == {"true", "false", "throws"}

\* What a caller-supplied getRetryAfterMs does with a failure: a number, null,
\* or an exception.
HintThrows == [t |-> "throws", n |-> 0, s |-> <<>>]
Unasked == [t |-> "unasked", n |-> 0, s |-> <<>>]
CustomHints == {JSNull, Num(0), Num(5000), JSNaN, HintThrows}

\* The options record a caller passes: every field is optional.
OptField(k, vals) == {<<>>} \cup {k :> v : v \in vals}

OptionsOver(retries, predicates) ==
    { a @@ b @@ c @@ d @@ e @@ f :
        a \in retries,
        b \in OptField("initialDelayMs", {400}),
        c \in OptField("maxDelayMs", {1500}),
        d \in OptField("isRetryable", predicates),
        e \in OptField("getRetryAfterMs", predicates),
        f \in OptField("label", {"", "MyAPI"}) }

\* Callers that state their budget pass any combination of the other fields;
\* callers that leave maxRetries unset keep the default predicates.
Options ==
    OptionsOver({"maxRetries" :> n : n \in -1..MaxRetriesBound}, {"custom"})
        \cup OptionsOver({<<>>}, {})

(***************************************************************************)
(* State.                                                                  *)
(***************************************************************************)
VARIABLES
    pc,           \* per call: "idle", "awaitFn" (line 134), "sleeping" (line 156), "done"
    options,      \* per call: the options record passed by the caller
    policy,       \* per call: the destructured options (lines 121-128)
    attempt,      \* per call: the loop variable (line 132)
    lastError,    \* per call: line 130
    result,       \* per call: how the call ended
    invocations,  \* per call: number of times fn was invoked
    delays,       \* per call: the arguments of sleep, in order
    lines,        \* per call: the lines written with console.error, in order
    hist,         \* per call: the outcome of each completed invocation of fn
    trace,        \* per call: the observable events, in order
    arg,          \* the value handed to a default predicate called on its own
    ret           \* what that predicate returned

callVars == <<pc, options, policy, attempt, lastError, result, invocations,
              delays, lines, hist, trace>>
pureVars == <<arg, ret>>
vars == <<pc, options, policy, attempt, lastError, result, invocations,
          delays, lines, hist, trace, arg, ret>>

\* A reference to a thrown object: who threw it, during which invocation.
NoError == [by |-> "none", inv |-> 0, error |-> Primitive("undefined")]
ThrownBy(by, k, e) == [by |-> by, inv |-> k, error |-> e]

Pending == [kind |-> "pending", exit |-> "none", value |-> "", ref |-> NoError]
Returned(v) == [kind |-> "returned", exit |-> "return", value |-> v, ref |-> NoError]
Raised(exit, r) == [kind |-> "raised", exit |-> exit, value |-> "", ref |-> r]

NoPolicy ==
    [maxRetries |-> 0, initialDelayMs |-> 0, maxDelayMs |-> 0,
     isRetryable |-> "default", getRetryAfterMs |-> "default",
     label |-> JSUndefined]

NoRet == [fn |-> "none", b |-> FALSE, v |-> JSUndefined]

IdleCalls ==
    /\ pc = [c \in Calls |-> "idle"]
    /\ options = [c \in Calls |-> <<>>]
    /\ policy = [c \in Calls |-> NoPolicy]
    /\ attempt = [c \in Calls |-> 0]
    /\ lastError = [c \in Calls |-> NoError]
    /\ result = [c \in Calls |-> Pending]
    /\ invocations = [c \in Calls |-> 0]
    /\ delays = [c \in Calls |-> <<>>]
    /\ lines = [c \in Calls |-> <<>>]
    /\ hist = [c \in Calls |-> <<>>]
    /\ trace = [c \in Calls |-> <<>>]

Init ==
    /\ IdleCalls
    /\ arg = Primitive("undefined")
    /\ ret = NoRet

(***************************************************************************)
(* retry.ts:117-161  withRetry                                             *)
(***************************************************************************)
\* Mutant: the default cap is one minute.
DestructureLongCap(o) ==
    [maxRetries |-> IF "maxRetries" \in DOMAIN o THEN o.maxRetries ELSE DEFAULT_maxRetries,
     initialDelayMs |->
        IF "initialDelayMs" \in DOMAIN o THEN o.initialDelayMs ELSE DEFAULT_initialDelayMs,
     maxDelayMs |-> IF "maxDelayMs" \in DOMAIN o THEN o.maxDelayMs
                    ELSE 2 * DEFAULT_maxDelayMs,
     isRetryable |-> IF "isRetryable" \in DOMAIN o THEN o.isRetryable ELSE "default",
     getRetryAfterMs |->
        IF "getRetryAfterMs" \in DOMAIN o THEN o.getRetryAfterMs ELSE "default",
     label |-> IF "label" \in DOMAIN o THEN [t |-> "string", n |-> 0, s |-> o.label]
               ELSE JSUndefined]

\* Lines 121-128: destructuring with defaults (a default applies when the
\* property is undefined).
Destructure(o) ==
    [maxRetries |-> IF "maxRetries" \in DOMAIN o THEN o.maxRetries ELSE DEFAULT_maxRetries,
     initialDelayMs |->
        IF "initialDelayMs" \in DOMAIN o THEN o.initialDelayMs ELSE DEFAULT_initialDelayMs,
     maxDelayMs |-> IF "maxDelayMs" \in DOMAIN o THEN o.maxDelayMs ELSE DEFAULT_maxDelayMs,
     isRetryable |-> IF "isRetryable" \in DOMAIN o THEN o.isRetryable ELSE "default",
     getRetryAfterMs |->
        IF "getRetryAfterMs" \in DOMAIN o THEN o.getRetryAfterMs ELSE "default",
     label |-> IF "label" \in DOMAIN o THEN [t |-> "string", n |-> 0, s |-> o.label]
               ELSE JSUndefined]

\* Mutant: the loop variable is a module-level variable, one for all calls.
AttemptCellShared(c) == 1

\* Line 132: `let attempt` is declared inside withRetry, so each call has its
\* own; AttemptCell(c) is where call c keeps it.
AttemptCell(c) == c

\* Mutant: a timer also runs while the operation is awaited, as a timeout
\* racing it would.
TimerPendingWhileAwaiting(c) == pc[c] \in {"sleeping", "awaitFn"}

\* Lines 102-104, 156: the one timer withRetry sets is that of sleep(delay); it
\* is pending while the call awaits it.
TimerPending(c) == pc[c] = "sleeping"

\* Mutant: the loop variable advances by two.
IncrementByTwo(a) == a + 2

\* Line 132: attempt++
Increment(a) == a + 1

\* Mutant: the loop stops one attempt early.
LoopConditionStrict(a, maxRetries) == a < maxRetries

\* Mutant: a do-while loop, whose body runs once before the condition is read.
LoopConditionAtLeastOnce(a, maxRetries) == a = 0 \/ a <= maxRetries

\* Line 132: the loop condition.
LoopCondition(a, maxRetries) == a <= maxRetries

\* Mutant: no budget check in the catch block; the loop condition alone ends
\* the loop.
BudgetExhaustedNever(a, maxRetries) == FALSE

\* Mutant: the budget check is off by one.
BudgetExhaustedLate(a, maxRetries) == a = maxRetries + 1

\* Line 142: the budget check.
BudgetExhausted(a, maxRetries) == a = maxRetries

\* Mutant: the backoff grows linearly.
ExponentialDelayLinear(initialDelayMs, a) == initialDelayMs * (a + 1)

\* Mutant: the exponent is the number of the next attempt.
ExponentialDelayNext(initialDelayMs, a) == initialDelayMs * 2^(a + 1)

\* Line 147: initialDelayMs * 2 ** attempt
ExponentialDelay(initialDelayMs, a) == initialDelayMs * 2^a

\* Mutant: Math.max in place of Math.min.
MathMax(v, m) ==
    IF v.t = "NaN" THEN JSNaN ELSE IF v.n >= m THEN v ELSE Num(m)

\* Math.min(v, m) for a number value v and an integer m
MathMin(v, m) ==
    IF v.t = "NaN" THEN JSNaN ELSE IF v.n <= m THEN v ELSE Num(m)

\* Mutant: only the exponential term is clamped.
DelayHintUnclamped(retryAfter, exponentialDelay, maxDelayMs) ==
    Coalesce(retryAfter, MathMin(Num(exponentialDelay), maxDelayMs))

\* Mutant: `||` in place of `??`, so a hint of 0 falls back to the backoff.
DelayFalsyHint(retryAfter, exponentialDelay, maxDelayMs) ==
    MathMin(IF Nullish(retryAfter) \/ retryAfter.t = "NaN" \/ retryAfter.n = 0
            THEN Num(exponentialDelay) ELSE retryAfter,
            maxDelayMs)

\* Line 148: Math.min(retryAfter ?? exponentialDelay, maxDelayMs)
Delay(retryAfter, exponentialDelay, maxDelayMs) ==
    MathMin(Coalesce(retryAfter, Num(exponentialDelay)), maxDelayMs)

\* Mutant: the line reports the 0-based index of the failed attempt.
NextAttemptZeroBased(a) == a

\* Line 150
NextAttempt(a) == a + 1

\* Line 151: label ? `${label}: ` : ""
Prefix(label) ==
    IF label.t = "string" /\ label.s # "" THEN label.s \o ": " ELSE ""

\* `${n}` for a number value
NumberToString(v) == IF v.t = "NaN" THEN "NaN" ELSE ToString(v.n)

\* Line 153: the template literal
Line(label, delay, nextAttempt, maxRetries) ==
    Prefix(label) \o "Transient error, retrying in " \o NumberToString(delay)
        \o "ms (attempt " \o ToString(nextAttempt) \o "/" \o ToString(maxRetries) \o ")"

\* The answers of the default predicates for the failures of the model,
\* computed once.
DefaultVerdict ==
    [e \in Failures |-> IF defaultIsRetryable(e) THEN "true" ELSE "false"]
DefaultHint == [e \in Failures |-> defaultGetRetryAfterMs(e)]

\* What isRetryable(error) does: the default predicate computes its answer; a
\* caller-supplied one answers anything or throws.
Verdicts(p, e) ==
    IF p.isRetryable = "default" THEN {DefaultVerdict[e]} ELSE CustomVerdicts

\* What getRetryAfterMs(error) does.
Hints(p, e) ==
    IF p.getRetryAfterMs = "default" THEN {DefaultHint[e]} ELSE CustomHints

\* Mutant: the awaited value is dropped (`await fn(); return;`).
ReturnNothing(v) == Returned("")

\* Line 134: return await fn()
Return(v) == Returned(v)

\* Mutant: the failure is wrapped in a new error.
RethrowWrapped(exit, error) ==
    Raised(exit, ThrownBy("withRetry", error.inv, ErrorObject(<<>>)))

\* Lines 139, 143, 160: throw error / throw lastError
Rethrow(exit, error) == Raised(exit, error)

\* Mutant: a failure the predicate rejects is retried while budget remains.
CatchExitIgnoresVerdict(verdict, a, maxRetries, hint) ==
    IF verdict = "throws" THEN "isRetryableThrew"
    ELSE IF a = maxRetries THEN (IF verdict = "false" THEN "nonRetryable" ELSE "exhausted")
    ELSE IF hint = HintThrows THEN "getRetryAfterMsThrew"
    ELSE "retry"

\* Mutant: the predicates are called under a guard; when one throws, the
\* failure of the operation is propagated instead.
CatchExitGuarded(verdict, a, maxRetries, hint) ==
    IF verdict \in {"throws", "false"} THEN "nonRetryable"
    ELSE IF a = maxRetries \/ hint = HintThrows THEN "exhausted"
    ELSE "retry"

\* Mutant: the budget is checked before isRetryable is consulted.
CatchExitBudgetFirst(verdict, a, maxRetries, hint) ==
    IF a = maxRetries THEN "exhausted"
    ELSE IF verdict = "throws" THEN "isRetryableThrew"
    ELSE IF verdict = "false" THEN "nonRetryable"
    ELSE IF hint = HintThrows THEN "getRetryAfterMsThrew"
    ELSE "retry"

\* Mutant: the verdict is honoured for the first failure only; a later failure
\* that the predicate rejects is retried while budget remains.
CatchExitRejectsFirstOnly(verdict, a, maxRetries, hint) ==
    IF verdict = "throws" THEN "isRetryableThrew"
    ELSE IF verdict = "false" /\ (a = 0 \/ a = maxRetries) THEN "nonRetryable"
    ELSE IF a = maxRetries THEN "exhausted"
    ELSE IF hint = HintThrows THEN "getRetryAfterMsThrew"
    ELSE "retry"

\* Lines 138-146: which way the catch block goes.  isRetryable is consulted
\* first, then the budget, then getRetryAfterMs.
CatchExit(verdict, a, maxRetries, hint) ==
    IF verdict = "throws" THEN "isRetryableThrew"
    ELSE IF verdict = "false" THEN "nonRetryable"
    ELSE IF BudgetExhausted(a, maxRetries) THEN "exhausted"
    ELSE IF hint = HintThrows THEN "getRetryAfterMsThrew"
    ELSE "retry"

\* Mutant: retryAfter is declared outside the loop and keeps the hint of the
\* failure before when the present one has none.
RetryAfterSticky(c, hint) ==
    IF Nullish(hint) /\ hist[c] # <<>> /\ hist[c][Len(hist[c])].hint.t \in {"number", "NaN"}
    THEN hist[c][Len(hist[c])].hint
    ELSE hint

\* Mutant: a jitter that differs from call to call is added to the hint.
RetryAfterJitter(c, hint) == IF hint.t = "number" THEN Num(hint.n + c) ELSE hint

\* Line 146: `const retryAfter = getRetryAfterMs(error)` is a constant of the
\* iteration: it holds what the extractor said of the present failure.
RetryAfter(c, hint) == hint

\* Mutant: the sleep starts before the line is written.
CatchEventsSleepFirst(asked, exit) ==
    <<"isRetryable">>
        \o (IF asked THEN <<"getRetryAfterMs">> ELSE <<>>)
        \o (IF exit = "retry" THEN <<"sleep", "console.error">> ELSE <<>>)

\* Lines 138-156: what the catch block calls, in program order: isRetryable
\* (138), getRetryAfterMs (146) when the failure is accepted and budget
\* remains, then console.error (152) and sleep (156) when it retries.
CatchEvents(asked, exit) ==
    <<"isRetryable">>
        \o (IF asked THEN <<"getRetryAfterMs">> ELSE <<>>)
        \o (IF exit = "retry" THEN <<"console.error", "sleep">> ELSE <<>>)

\* Lines 132-134 from the loop condition on: with a budget left, fn is invoked
\* and awaited; otherwise the loop is left and line 160 throws lastError.
EnterLoop(c, a, p, last) ==
    IF LoopCondition(a, p.maxRetries)
    THEN /\ pc' = [pc EXCEPT ![c] = "awaitFn"]
         /\ invocations' = [invocations EXCEPT ![c] = @ + 1]
         /\ trace' = [trace EXCEPT ![c] = Append(@, "fn")]
         /\ result' = result
    ELSE /\ pc' = [pc EXCEPT ![c] = "done"]
         /\ result' = [result EXCEPT ![c] = Rethrow("postLoop", last)]
         /\ UNCHANGED <<invocations, trace>>

\* The call withRetry(fn, o): lines 121-134 up to the first await.
WithRetry(c, o) ==
    /\ pc[c] = "idle"
    /\ options' = [options EXCEPT ![c] = o]
    /\ policy' = [policy EXCEPT ![c] = Destructure(o)]
    /\ lastError' = [lastError EXCEPT ![c] = NoError]
    /\ attempt' = [attempt EXCEPT ![AttemptCell(c)] = 0]
    /\ EnterLoop(c, 0, Destructure(o), NoError)
    /\ UNCHANGED <<delays, lines, hist, pureVars>>

\* Line 134: the awaited promise fulfils with v; withRetry returns v.
FnResolves(c, v) ==
    /\ pc[c] = "awaitFn"
    /\ pc' = [pc EXCEPT ![c] = "done"]
    /\ result' = [result EXCEPT ![c] = Return(v)]
    /\ hist' = [hist EXCEPT ![c] =
                  Append(@, [kind |-> "resolved", value |-> v,
                             error |-> Primitive("undefined"),
                             verdict |-> "unasked", hint |-> Unasked])]
    /\ UNCHANGED <<options, policy, attempt, lastError, invocations, delays,
                   lines, trace, pureVars>>

\* The failures worth telling apart under policy p.  withRetry hands a
\* failure to isRetryable (138) and getRetryAfterMs (146) and looks at nothing
\* of it itself: the message matters to defaultIsRetryable only, the headers
\* to defaultGetRetryAfterMs only.
FailuresUnder(p) ==
    {E503, E404}
        \cup (IF p.isRetryable = "default" THEN {E404Network} ELSE {})
        \cup (IF p.getRetryAfterMs = "default"
              THEN {E503After5, E429After60, E503AfterMinus1} ELSE {})

\* The failures the operation may produce now: anything during its first
\* MaxFree invocations, afterwards what it did the time before.
MayFail(c, e, verdict, hint) ==
    /\ e \in FailuresUnder(policy[c])
    /\ verdict \in Verdicts(policy[c], e)
    /\ hint \in Hints(policy[c], e)
    /\ invocations[c] > MaxFree =>
          LET prev == hist[c][Len(hist[c])]
          IN  /\ e = prev.error
              /\ verdict = prev.verdict
              /\ hint = prev.hint

\* Lines 135-156: the awaited promise rejects with e; the catch block runs up
\* to a throw or to the await of sleep.
FnRejects(c, e, verdict, hint) ==
    /\ pc[c] = "awaitFn"
    /\ MayFail(c, e, verdict, hint)
    /\ LET p == policy[c]
           error == ThrownBy("fn", invocations[c], e)
           a == attempt[AttemptCell(c)]
           exit == CatchExit(verdict, a, p.maxRetries, hint)
           delay == Delay(RetryAfter(c, hint), ExponentialDelay(p.initialDelayMs, a),
                          p.maxDelayMs)
           asked == exit \in {"getRetryAfterMsThrew", "retry"}
       IN  /\ lastError' = [lastError EXCEPT ![c] = error]
           /\ hist' = [hist EXCEPT ![c] =
                 Append(@, [kind |-> "rejected", value |-> "", error |-> e,
                            verdict |-> verdict,
                            hint |-> IF asked THEN hint ELSE Unasked])]
           /\ trace' = [trace EXCEPT ![c] = @ \o CatchEvents(asked, exit)]
           /\ IF exit = "retry"
              THEN \* lines 146-156
                   /\ pc' = [pc EXCEPT ![c] = "sleeping"]
                   /\ lines' = [lines EXCEPT ![c] =
                         Append(@, Line(p.label, delay, NextAttempt(a),
                                        p.maxRetries))]
                   /\ delays' = [delays EXCEPT ![c] = Append(@, delay)]
                   /\ result' = result
              ELSE \* lines 138, 139, 143, 146: an exception leaves withRetry
                   /\ pc' = [pc EXCEPT ![c] = "done"]
                   /\ result' = [result EXCEPT ![c] =
                         IF exit \in {"nonRetryable", "exhausted"}
                         THEN Rethrow(exit, error)
                         ELSE Raised(exit,
                                     ThrownBy(IF exit = "isRetryableThrew"
                                              THEN "isRetryable" ELSE "getRetryAfterMs",
                                              invocations[c], ErrorObject(<<>>)))]
                   /\ UNCHANGED <<delays, lines>>
    /\ UNCHANGED <<options, policy, attempt, invocations, pureVars>>

\* Lines 156, 132-134: the timer fires; attempt++, the loop condition, and
\* the next invocation of fn (or line 160).
SleepDone(c) ==
    /\ TimerPending(c)
    /\ attempt' = [attempt EXCEPT ![AttemptCell(c)] = Increment(@)]
    /\ EnterLoop(c, Increment(attempt[AttemptCell(c)]), policy[c], lastError[c])
    /\ UNCHANGED <<options, policy, lastError, delays, lines, hist, pureVars>>

\* Every hint either extractor can give.
AllHints == CustomHints \cup {DefaultHint[f] : f \in Failures}

\* One caller, one call.
Next ==
    \/ \E o \in Options : WithRetry(1, o)
    \/ \E v \in Values : FnResolves(1, v)
    \/ \E e \in Failures, verdict \in CustomVerdicts, hint \in AllHints :
          FnRejects(1, e, verdict, hint)
    \/ SleepDone(1)

Spec == Init /\ [][Next]_vars

\* The scheduling withRetry relies on: a timer set by sleep fires, and (the
\* premise of the termination property) an invocation of fn settles.
Settles(c) ==
    \/ \E v \in Values : FnResolves(c, v)
    \/ \E e \in Failures, verdict \in CustomVerdicts, hint \in AllHints :
          FnRejects(c, e, verdict, hint)

\* Termination does not depend on the label or on the lengths of the delays:
\* the fair specification draws the options that leave them unset.
FairOptions ==
    {o \in Options : DOMAIN o \subseteq {"maxRetries", "isRetryable", "getRetryAfterMs"}}

FairNext ==
    \/ \E o \in FairOptions : WithRetry(1, o)
    \/ Settles(1)
    \/ SleepDone(1)

FairSpec ==
    Init /\ [][FairNext]_vars /\ WF_vars(SleepDone(1)) /\ WF_vars(Settles(1))

\* Several calls in flight at once, or one after another: each awaits its own
\* operation and its own timer, and the steps of different calls interleave
\* in any order.
ConcOptions ==
    { "maxRetries" :> 1,
      "maxRetries" :> 0 @@ "label" :> "MyAPI",
      "maxRetries" :> 1 @@ "initialDelayMs" :> 400 @@ "label" :> "MyAPI" }

ConcNext ==
    \E c \in Calls :
        \/ \E o \in ConcOptions : WithRetry(c, o)
        \/ FnResolves(c, "v1")
        \/ \E e \in {E503, E404, E503After5} :
              FnRejects(c, e, IF defaultIsRetryable(e) THEN "true" ELSE "false",
                        defaultGetRetryAfterMs(e))
        \/ SleepDone(c)

ConcSpec == Init /\ [][ConcNext]_vars

(***************************************************************************)
(* The default predicates called on their own.                             *)
(***************************************************************************)
\* Values found under status, code and statusCode.
StatusValues ==
    {JSUndefined, JSNull, JSNaN, Str(<<"5", "0", "3">>)}
        \cup {Num(n) : n \in RETRYABLE_STATUS_CODES \cup {0, 404, 501}}

\* Messages of the probed values: "", "boom", and messages that spell a
\* transient condition, or nearly one, in some letter case.
Messages ==
    { <<>>, <<"b", "o", "o", "m">>,
      <<"S", "o", "c", "k", "e", "t", " ", "H", "a", "n", "g", " ", "U", "p">>,
      <<"E", "T", "I", "M", "E", "D", "O", "U", "T">>,
      <<"R", "e", "q", "u", "e", "s", "t", " ", "T", "i", "m", "e", "o", "u", "t">>,
      <<"r", "e", "a", "d", " ", "E", "C", "O", "N", "N", "R", "E", "S", "E", "T">>,
      <<"c", "o", "n", "n", "e", "c", "t", " ", "E", "C", "O", "N", "N", "R", "E", "F", "U", "S", "E", "D">>,
      <<"N", "e", "t", "w", "o", "r", "k", " ", "E", "r", "r", "o", "r">>,
      <<"R", "E", "Q", "U", "E", "S", "T", "_", "T", "I", "M", "E", "O", "U", "T">>,
      <<"N", "o", "t", " ", "F", "o", "u", "n", "d">> }

\* Values found under the header entries retry-after and Retry-After:
\* numbers, and the strings "5", "120", "5abc", " 7", "-1", "abc", "".
HeaderValues ==
    { JSUndefined, JSNull, JSNaN, Num(0), Num(5), Num(-1),
      Str(<<"5">>), Str(<<"1", "2", "0">>), Str(<<"5", "a", "b", "c">>),
      Str(<<" ", "7">>), Str(<<"-", "1">>), Str(<<"a", "b", "c">>), Str(<<>>) }

\* Values found under headers: absent, null, a string, or an object.
HeadersValues ==
    { NoHeaders,
      [t |-> "null", lower |-> JSUndefined, upper |-> JSUndefined],
      [t |-> "string", lower |-> JSUndefined, upper |-> JSUndefined] }
    \cup {Headers(lo, up) : lo \in HeaderValues, up \in HeaderValues}

ProbeErrors ==
    { Thrown(t, status, code, statusCode, NoHeaders, m) :
        t \in {"object", "error"}, status \in StatusValues, code \in StatusValues,
        statusCode \in StatusValues, m \in {<<>>, <<"b", "o", "o", "m">>} }
    \cup { Thrown(t, status, JSUndefined, JSUndefined, NoHeaders, m) :
             t \in {"object", "error"}, status \in {JSUndefined, Num(404), Num(503)},
             m \in Messages }
    \cup { Thrown(t, Num(503), JSUndefined, JSUndefined, h, <<>>) :
             t \in {"object", "error"}, h \in HeadersValues }
    \cup {Primitive(t) : t \in {"string", "undefined", "null"}}

\* Arguments of isRetryableStatusCode.
StatusCodes == {Num(n) : n \in {0, 200, 404, 407, 409, 428, 430, 499, 501, 505}
                               \cup RETRYABLE_STATUS_CODES} \cup {JSNaN}

PureInit ==
    /\ IdleCalls
    /\ arg \in ProbeErrors
    /\ ret = NoRet

\* defaultIsRetryable(arg)
CallDefaultIsRetryable ==
    /\ ret.fn = "none"
    /\ ret' = [fn |-> "defaultIsRetryable", b |-> defaultIsRetryable(arg),
               v |-> JSUndefined]
    /\ UNCHANGED <<arg, callVars>>

\* defaultGetRetryAfterMs(arg)
CallDefaultGetRetryAfterMs ==
    /\ ret.fn = "none"
    /\ ret' = [fn |-> "defaultGetRetryAfterMs", b |-> FALSE,
               v |-> defaultGetRetryAfterMs(arg)]
    /\ UNCHANGED <<arg, callVars>>

\* isRetryableStatusCode(statusCode): the call takes a number of its own, so
\* it is made once, from the state whose arg is undefined; ret keeps the
\* argument and the answer.
CallIsRetryableStatusCode(statusCode) ==
    /\ ret.fn = "none"
    /\ arg = Primitive("undefined")
    /\ ret' = [fn |-> "isRetryableStatusCode", b |-> isRetryableStatusCode(statusCode),
               v |-> statusCode]
    /\ UNCHANGED <<arg, callVars>>

PureNext ==
    \/ CallDefaultIsRetryable
    \/ CallDefaultGetRetryAfterMs
    \/ \E statusCode \in StatusCodes : CallIsRetryableStatusCode(statusCode)

PureSpec == PureInit /\ [][PureNext]_vars

(***************************************************************************)
(* Vocabulary of the properties.                                           *)
(***************************************************************************)
Started(c) == pc[c] # "idle"
Done(c) == pc[c] = "done"
Outcome(c, k) == hist[c][k]
LastOutcome(c) == hist[c][Len(hist[c])]

\* The call returned the value of its last invocation, which succeeded.
ReturnsSuccess(c) ==
    /\ result[c].kind = "returned"
    /\ Len(hist[c]) = invocations[c]
    /\ invocations[c] >= 1
    /\ LastOutcome(c).kind = "resolved"
    /\ result[c].value = LastOutcome(c).value

\* The call raised the very object its most recent invocation threw.
RaisesLastFailure(c) ==
    /\ result[c].kind = "raised"
    /\ Len(hist[c]) = invocations[c]
    /\ invocations[c] >= 1
    /\ LastOutcome(c).kind = "rejected"
    /\ result[c].ref = ThrownBy("fn", invocations[c], LastOutcome(c).error)

\* The call raised what the caller's isRetryable or getRetryAfterMs threw
\* while handling the most recent failure.
RaisesPredicateException(c) ==
    /\ result[c].kind = "raised"
    /\ Len(hist[c]) = invocations[c]
    /\ invocations[c] >= 1
    /\ LastOutcome(c).kind = "rejected"
    /\ \/ /\ result[c].ref.by = "isRetryable"
          /\ policy[c].isRetryable = "custom"
          /\ LastOutcome(c).verdict = "throws"
       \/ /\ result[c].ref.by = "getRetryAfterMs"
          /\ policy[c].getRetryAfterMs = "custom"
          /\ LastOutcome(c).verdict = "true"
          /\ LastOutcome(c).hint = HintThrows

\* Every invocation so far failed with a failure that isRetryable accepted.
AllAccepted(c) ==
    \A k \in 1..Len(hist[c]) :
        Outcome(c, k).kind = "rejected" /\ Outcome(c, k).verdict = "true"

\* getRetryAfterMs raised for no failure so far.
NoHintThrew(c) == \A k \in 1..Len(hist[c]) : Outcome(c, k).hint # HintThrows

Min(a, b) == IF a <= b THEN a ELSE b

(***************************************************************************)
(* C1.  For every operation and policy with maxRetries >= 0 a finished     *)
(* call either returned the value of a successful invocation or raised     *)
(* exactly the failure object of the most recent invocation.               *)
(* As stated this fails: an exception thrown by the caller's isRetryable   *)
(* or getRetryAfterMs leaves withRetry in place of the operation's         *)
(* failure.                                                                *)
(***************************************************************************)
C1_AsStated ==
    \A c \in Calls :
        Done(c) /\ policy[c].maxRetries >= 0 =>
            ReturnsSuccess(c) \/ RaisesLastFailure(c)

\* C1 amended: a finished call with maxRetries >= 0 returned the value of a
\* successful invocation, or raised exactly the failure object of the most
\* recent invocation, or raised the exception that the caller's isRetryable or
\* getRetryAfterMs threw while handling that failure.
C1_Amended ==
    \A c \in Calls :
        Done(c) /\ policy[c].maxRetries >= 0 =>
            \/ ReturnsSuccess(c)
            \/ RaisesLastFailure(c) /\ result[c].exit \in {"nonRetryable", "exhausted"}
            \/ RaisesPredicateException(c)

\* A call that retried twice and raised the failure of its third invocation.
C1_Witness ==
    \E c \in Calls :
        /\ Done(c) /\ policy[c].maxRetries >= 0
        /\ invocations[c] = 3
        /\ RaisesLastFailure(c)

(***************************************************************************)
(* C2.  With maxRetries = N the operation is invoked at most N + 1 times;  *)
(* if every invocation fails with a failure isRetryable accepts, it is     *)
(* invoked exactly N + 1 times, the failure of invocation N + 1 is         *)
(* propagated and exactly N lines are written.                             *)
(* As stated this fails when getRetryAfterMs throws for an accepted        *)
(* failure: the call ends there, before invocation N + 1.                  *)
(***************************************************************************)
C2_Conclusion(c) ==
    LET N == policy[c].maxRetries
    IN  /\ invocations[c] = N + 1
        /\ result[c].kind = "raised"
        /\ result[c].ref = ThrownBy("fn", N + 1, Outcome(c, N + 1).error)
        /\ Len(lines[c]) = N

C3_RejectedPropagates ==
    \A c \in Calls : \A k \in 1..Len(hist[c]) :
        Outcome(c, k).kind = "rejected" /\ Outcome(c, k).verdict = "false" =>
            /\ Done(c)
            /\ k = Len(hist[c]) /\ invocations[c] = k
            /\ result[c] = Raised("nonRetryable", ThrownBy("fn", k, Outcome(c, k).error))
            /\ Len(delays[c]) = k - 1
            /\ Len(lines[c]) = k - 1
            /\ trace[c][Len(trace[c])] = "isRetryable"

\* A first failure rejected with two retries still in the budget.
C3_Witness ==
    \E c \in Calls :
        /\ policy[c].maxRetries = 2
        /\ Len(hist[c]) = 1 /\ Outcome(c, 1).verdict = "false"
        /\ Done(c) /\ invocations[c] = 1
        /\ delays[c] = <<>> /\ lines[c] = <<>>

(***************************************************************************)
(* C4.  When the first invocation succeeds the call returns its value      *)
(* after exactly one invocation, without a delay or a line, for every      *)
(* policy that permits an attempt.                                         *)
(***************************************************************************)
C4_FirstSuccess ==
    \A c \in Calls :
        Len(hist[c]) >= 1 /\ Outcome(c, 1).kind = "resolved" =>
            /\ Done(c)
            /\ result[c] = Returned(Outcome(c, 1).value)
            /\ result[c].value \in Values
            /\ invocations[c] = 1
            /\ delays[c] = <<>> /\ lines[c] = <<>>
            /\ trace[c] = <<"fn">>

C4_Witness ==
    \E c \in Calls :
        /\ Len(hist[c]) = 1 /\ Outcome(c, 1).kind = "resolved"
        /\ result[c] = Returned("v2")
        /\ policy[c].maxRetries = 0

(***************************************************************************)
(* C5.  k retryable failures followed by a success: the call returns the   *)
(* value of invocation k + 1, the operation was invoked exactly k + 1      *)
(* times, and there were exactly k sleeps and k lines.  With the defaults  *)
(* (maxRetries 10, initialDelayMs 1000), status 503 and k = 2 the sleeps   *)
(* are 1000 ms and 2000 ms.                                                *)
(***************************************************************************)
FailedThenSucceeded(c, k) ==
    /\ Len(hist[c]) = k + 1
    /\ \A i \in 1..k : Outcome(c, i).kind = "rejected"
    /\ Outcome(c, k + 1).kind = "resolved"

Scenario1(c) ==
    /\ policy[c].maxRetries = 10 /\ policy[c].initialDelayMs = 1000
    /\ policy[c].maxDelayMs = 30000
    /\ policy[c].isRetryable = "default" /\ policy[c].getRetryAfterMs = "default"
    /\ FailedThenSucceeded(c, 2)
    /\ Outcome(c, 1).error = E503 /\ Outcome(c, 2).error = E503

C5_FailThenSucceed ==
    \A c \in Calls : \A k \in 0..Len(hist[c]) :
        FailedThenSucceeded(c, k) =>
            /\ k <= policy[c].maxRetries
            /\ \A i \in 1..k : Outcome(c, i).verdict = "true"
            /\ Done(c)
            /\ result[c] = Returned(Outcome(c, k + 1).value)
            /\ result[c].value \in Values
            /\ invocations[c] = k + 1
            /\ Len(delays[c]) = k /\ Len(lines[c]) = k
            /\ Scenario1(c) => delays[c] = <<Num(1000), Num(2000)>>

C5_Witness == \E c \in Calls : Scenario1(c) /\ Done(c)

(***************************************************************************)
(* C6.  Without a hint and below the cap, the delay before the k-th retry  *)
(* is initialDelayMs * 2^(k-1).                                            *)
(***************************************************************************)
C6_Backoff ==
    \A c \in Calls : \A k \in 1..Len(delays[c]) :
        LET d == policy[c].initialDelayMs
        IN  Outcome(c, k).hint = JSNull /\ d * 2^(k - 1) <= policy[c].maxDelayMs =>
                delays[c][k] = Num(d * 2^(k - 1))

\* 400 ms then 800 ms under a cap of 1500 ms.
C6_Witness ==
    \E c \in Calls :
        /\ policy[c].initialDelayMs = 400 /\ policy[c].maxDelayMs = 1500
        /\ Len(delays[c]) = 2
        /\ Outcome(c, 1).hint = JSNull /\ Outcome(c, 2).hint = JSNull
        /\ delays[c] = <<Num(400), Num(800)>>

(***************************************************************************)
(* C7.  When the computed delay (the hint if there is one, else            *)
(* initialDelayMs * 2^attempt) exceeds maxDelayMs, the delay slept and     *)
(* reported is maxDelayMs.                                                 *)
(***************************************************************************)
Computed(c, k) ==
    IF Nullish(Outcome(c, k).hint)
    THEN Num(policy[c].initialDelayMs * 2^(k - 1))
    ELSE Outcome(c, k).hint

C7_Cap ==
    \A c \in Calls : \A k \in 1..Len(delays[c]) :
        Computed(c, k).t = "number" /\ Computed(c, k).n > policy[c].maxDelayMs =>
            /\ delays[c][k] = Num(policy[c].maxDelayMs)
            /\ lines[c][k] =
                  Line(policy[c].label, Num(policy[c].maxDelayMs), k, policy[c].maxRetries)

\* A hint of 5000 ms, then a backoff of 2000 ms, both cut to 1500 ms.
C7_Witness ==
    \E c \in Calls :
        /\ policy[c].maxDelayMs = 1500 /\ policy[c].initialDelayMs = 1000
        /\ Len(delays[c]) = 2
        /\ Outcome(c, 1).hint = Num(5000) /\ Outcome(c, 2).hint = JSNull
        /\ delays[c] = <<Num(1500), Num(1500)>>

(***************************************************************************)
(* C8.  When getRetryAfterMs returns h for a retried failure (0 included), *)
(* the delay is min(h, maxDelayMs), whatever the attempt index and         *)
(* initialDelayMs are; with the default extractor, header retry-after "5", *)
(* status 503 and maxDelayMs 30000 the delay is 5000 ms at every attempt.  *)
(***************************************************************************)
C8_HintOverrides ==
    \A c \in Calls : \A k \in 1..Len(delays[c]) :
        LET h == Outcome(c, k).hint
        IN  /\ h.t = "number" => delays[c][k] = Num(Min(h.n, policy[c].maxDelayMs))
            /\ h.t = "NaN" => delays[c][k] = JSNaN
            /\ /\ policy[c].getRetryAfterMs = "default"
               /\ policy[c].maxDelayMs = 30000
               /\ Outcome(c, k).error = E503After5
               => delays[c][k] = Num(5000)

\* A hint of 0 at the first attempt and the header retry-after "5" at the
\* second, both taken as they are.
C8_Witness ==
    \E c \in Calls :
        /\ Len(delays[c]) = 2
        /\ policy[c].initialDelayMs = 400
        /\ Outcome(c, 1).hint = Num(0) /\ delays[c][1] = Num(0)
        /\ Outcome(c, 2).hint = Num(5000) /\ delays[c][2] = Num(1500)

\* The header retry-after "5" read by the default extractor at attempt
\* indexes 0 and 1 under the default cap.
C8_WitnessHeader ==
    \E c \in Calls :
        /\ policy[c].getRetryAfterMs = "default" /\ policy[c].maxDelayMs = 30000
        /\ Len(delays[c]) = 2
        /\ Outcome(c, 1).error = E503After5 /\ Outcome(c, 2).error = E503After5
        /\ delays[c] = <<Num(5000), Num(5000)>>

(***************************************************************************)
(* C9.  If every invocation of the operation completes, every call         *)
(* eventually completes through success, a non-retryable failure or budget *)
(* exhaustion, after at most maxRetries + 1 invocations and at most        *)
(* maxRetries delays.                                                      *)
(* As stated this fails: a call with a negative maxRetries ends in the     *)
(* throw after the loop (0 invocations, 0 delays), and a call whose        *)
(* isRetryable or getRetryAfterMs throws ends with that exception.         *)
(***************************************************************************)
C9_AsStated ==
    \A c \in Calls :
        Done(c) =>
            /\ result[c].exit \in {"return", "nonRetryable", "exhausted"}
            /\ invocations[c] <= policy[c].maxRetries + 1
            /\ Len(delays[c]) <= policy[c].maxRetries

Max(a, b) == IF a >= b THEN a ELSE b

C9_Exits(c) ==
    /\ invocations[c] <= Max(policy[c].maxRetries + 1, 0)
    /\ Len(delays[c]) <= Max(policy[c].maxRetries, 0)
    /\ \/ result[c].exit = "return" /\ ReturnsSuccess(c)
       \/ /\ result[c].exit = "nonRetryable"
          /\ RaisesLastFailure(c) /\ LastOutcome(c).verdict = "false"
       \/ /\ result[c].exit = "exhausted"
          /\ RaisesLastFailure(c) /\ LastOutcome(c).verdict = "true"
          /\ invocations[c] = policy[c].maxRetries + 1
       \/ /\ result[c].exit \in {"isRetryableThrew", "getRetryAfterMsThrew"}
          /\ RaisesPredicateException(c)
       \/ /\ result[c].exit = "postLoop"
          /\ policy[c].maxRetries < 0
          /\ invocations[c] = 0

\* C9 amended: if every invocation of the operation completes, every call
\* eventually completes: through success, a non-retryable failure or budget
\* exhaustion; through the exception that the caller's isRetryable or
\* getRetryAfterMs raised; or, when maxRetries is negative, through the throw
\* after the loop without any invocation; in every case after at most
\* max(maxRetries + 1, 0) invocations and at most max(maxRetries, 0) delays.
C9_Amended ==
    /\ (\E c \in Calls : Started(c) /\ ~Done(c))
           ~> (\A c \in Calls : Started(c) => Done(c))
    /\ [](\A c \in Calls : Done(c) => C9_Exits(c))

\* A call that used its whole budget: three invocations, two delays.
C9_Witness ==
    \E c \in Calls :
        /\ Done(c) /\ policy[c].maxRetries = 2
        /\ result[c].exit = "exhausted"
        /\ invocations[c] = 3 /\ Len(delays[c]) = 2

(***************************************************************************)
(* C10.  defaultIsRetryable is true of every failure object that carries a *)
(* number of {408, 429, 500, 502, 503, 504} under status, code or          *)
(* statusCode, whatever its other fields hold.                             *)
(* As stated this fails: `code` is read only when `status` is undefined or *)
(* null, so {status: 404, code: 503} is not retryable.                     *)
(***************************************************************************)
CarriesRetryable(v) == v.t = "number" /\ v.n \in {408, 429, 500, 502, 503, 504}

C10_AsStated ==
    /\ ret.fn = "defaultIsRetryable"
    /\ IsObject(arg)
    /\ \/ CarriesRetryable(arg.status)
       \/ CarriesRetryable(arg.code)
       \/ CarriesRetryable(arg.statusCode)
    => ret.b

\* C10 amended: defaultIsRetryable is true of every failure object that
\* carries a number of {408, 429, 500, 502, 503, 504} under status, under
\* statusCode, or, when status is absent (undefined or null), under code,
\* whatever its other fields hold.
C10_Amended ==
    /\ ret.fn = "defaultIsRetryable"
    /\ IsObject(arg)
    /\ \/ CarriesRetryable(arg.status)
       \/ CarriesRetryable(arg.statusCode)
       \/ Nullish(arg.status) /\ CarriesRetryable(arg.code)
    => ret.b

\* {status: null, code: 408, statusCode: "503"} with a message that names no
\* transient condition.
C10_Witness ==
    /\ ret.fn = "defaultIsRetryable" /\ ret.b
    /\ arg.t = "error" /\ arg.message = <<"b", "o", "o", "m">>
    /\ arg.status = JSNull /\ arg.code = Num(408)
    /\ arg.statusCode = Str(<<"5", "0", "3">>)

(***************************************************************************)
(* C11.  defaultIsRetryable is false of every failure that neither carries *)
(* a number of {408, 429, 500, 502, 503, 504} under status, code or        *)
(* statusCode nor is an Error whose lower-cased message contains           *)
(* "timeout", "econnreset", "econnrefused", "socket hang up", "network" or *)
(* "request_timeout"; isRetryableStatusCode(c) is true exactly for c in    *)
(* that set.                                                               *)
(***************************************************************************)
TransientWords ==
    { <<"t", "i", "m", "e", "o", "u", "t">>,
      <<"e", "c", "o", "n", "n", "r", "e", "s", "e", "t">>,
      <<"e", "c", "o", "n", "n", "r", "e", "f", "u", "s", "e", "d">>,
      <<"s", "o", "c", "k", "e", "t", " ", "h", "a", "n", "g", " ", "u", "p">>,
      <<"n", "e", "t", "w", "o", "r", "k">>,
      <<"r", "e", "q", "u", "e", "s", "t", "_", "t", "i", "m", "e", "o", "u", "t">> }

\* The s[i..j] of a sequence s, as a set.
Substrings(s) == {SubSeq(s, i, j) : i \in 1..Len(s), j \in 1..Len(s)}

NamesTransient(e) ==
    e.t = "error" /\ TransientWords \cap Substrings(toLowerCase(e.message)) # {}

CarriesRetryableCode(e) ==
    /\ IsObject(e)
    /\ \/ CarriesRetryable(e.status)
       \/ CarriesRetryable(e.code)
       \/ CarriesRetryable(e.statusCode)

C11_WitnessStatusCode ==
    ret.fn = "isRetryableStatusCode" /\ ret.v = Num(501) /\ ~ret.b

(***************************************************************************)
(* C12.  Under the default retryability predicate, for every failure       *)
(* carrying status 404, an operation that fails with it makes withRetry    *)
(* propagate that failure at once: exactly 1 invocation, no delay, no      *)
(* line, for any maxRetries >= 0.                                          *)
(* As stated this fails for a failure that carries status 404 and is also  *)
(* an Error whose message contains one of the transient words: the default *)
(* predicate accepts it and the call retries.                              *)
(***************************************************************************)
FirstFails404(c) ==
    /\ Started(c)
    /\ policy[c].isRetryable = "default" /\ policy[c].maxRetries >= 0
    /\ Len(hist[c]) >= 1
    /\ Outcome(c, 1).kind = "rejected"
    /\ Outcome(c, 1).error.status = Num(404)

PropagatedAtOnce(c) ==
    /\ Done(c)
    /\ invocations[c] = 1
    /\ delays[c] = <<>> /\ lines[c] = <<>>
    /\ result[c] = Raised("nonRetryable", ThrownBy("fn", 1, Outcome(c, 1).error))

C12_AsStated == \A c \in Calls : FirstFails404(c) => PropagatedAtOnce(c)

\* C12 amended: under the default predicate, for every failure carrying status
\* 404 that carries no number of {408, 429, 500, 502, 503, 504} under
\* statusCode and is not an Error whose lower-cased message contains one of the
\* six transient words, withRetry propagates the failure after exactly 1
\* invocation, without a delay or a line, for any maxRetries >= 0.
C12_Amended ==
    \A c \in Calls :
        /\ FirstFails404(c)
        /\ ~CarriesRetryable(Outcome(c, 1).error.statusCode)
        /\ ~NamesTransient(Outcome(c, 1).error)
        => PropagatedAtOnce(c)

\* {status: 404} with two retries in the budget.
C12_Witness ==
    \E c \in Calls :
        /\ FirstFails404(c) /\ Outcome(c, 1).error = E404
        /\ policy[c].maxRetries = 2
        /\ PropagatedAtOnce(c)

(***************************************************************************)
(* C13.  defaultGetRetryAfterMs returns 1000 * s when the headers of the   *)
(* failure have an entry under retry-after or Retry-After whose value is   *)
(* the number s or a base-10 integer string denoting s, and null in every  *)
(* other case.                                                             *)
(* As stated this fails twice: a string that only begins with an integer   *)
(* ("5abc") yields a hint, and an unusable entry under retry-after hides a *)
(* usable one under Retry-After.                                           *)
(***************************************************************************)
DigitChars == {"0", "1", "2", "3", "4", "5", "6", "7", "8", "9"}

\* s is an optional sign followed by digits and nothing else.
IntegerString(s) ==
    LET body == IF s # <<>> /\ s[1] \in {"-", "+"} THEN Tail(s) ELSE s
    IN  body # <<>> /\ \A i \in 1..Len(body) : body[i] \in DigitChars

IntegerOf(s) ==
    IF s[1] = "-" THEN 0 - DecimalValue(Tail(s))
    ELSE IF s[1] = "+" THEN DecimalValue(Tail(s))
    ELSE DecimalValue(s)

\* The value v is a number or a base-10 integer string.
DenotesSeconds(v) == v.t \in {"number", "NaN"} \/ (v.t = "string" /\ IntegerString(v.s))

\* 1000 * s for the s that v denotes.
Milliseconds(v) ==
    IF v.t = "NaN" THEN JSNaN
    ELSE IF v.t = "number" THEN Num(1000 * v.n)
    ELSE Num(1000 * IntegerOf(v.s))

\* The entries under retry-after and Retry-After of an object's headers.
Entries(e) ==
    IF IsObject(e) /\ e.headers.t = "object" THEN {e.headers.lower, e.headers.upper}
    ELSE {}

C13_AsStated ==
    ret.fn = "defaultGetRetryAfterMs" =>
        LET usable == {v \in Entries(arg) : DenotesSeconds(v)}
        IN  IF usable # {} THEN ret.v \in {Milliseconds(v) : v \in usable}
            ELSE ret.v = JSNull

\* The entry the extractor reads: retry-after, or Retry-After when
\* retry-after is undefined or null.
Selected(e) ==
    IF e.headers.lower.t \in {"undefined", "null"} THEN e.headers.upper
    ELSE e.headers.lower

\* s begins, after optional spaces, with an optional sign and at least one
\* digit: i is the position of the first digit, j of the last of the run.
IntegerPrefix(s, i, j) ==
    /\ 1 <= i /\ i <= j /\ j <= Len(s)
    /\ \A k \in i..j : s[k] \in DigitChars
    /\ j < Len(s) => s[j + 1] \notin DigitChars
    /\ \/ \A k \in 1..(i - 1) : s[k] = " "
       \/ /\ i >= 2 /\ s[i - 1] \in {"-", "+"}
          /\ \A k \in 1..(i - 2) : s[k] = " "

PrefixValue(s, i, j) ==
    IF i >= 2 /\ s[i - 1] = "-" THEN 0 - DecimalValue(SubSeq(s, i, j))
    ELSE DecimalValue(SubSeq(s, i, j))

\* C13 amended: for a failure that is an object whose headers field is an
\* object, let v be the entry under retry-after or, when that is undefined or
\* null, the entry under Retry-After.  The extractor returns 1000 * s when v is
\* the number s, or a string that, after optional leading spaces, begins with
\* an optional sign and the digits of the base-10 integer s (whatever follows
\* the digits is ignored); it returns null in every other case.
C13_Amended ==
    ret.fn = "defaultGetRetryAfterMs" =>
        IF Entries(arg) = {} THEN ret.v = JSNull
        ELSE LET v == Selected(arg)
             IN  IF v.t \in {"number", "NaN"} THEN ret.v = Milliseconds(v)
                 ELSE IF v.t = "string"
                         /\ \E i, j \in 1..Len(v.s) : IntegerPrefix(v.s, i, j)
                 THEN \E i, j \in 1..Len(v.s) :
                         /\ IntegerPrefix(v.s, i, j)
                         /\ ret.v = Num(1000 * PrefixValue(v.s, i, j))
                 ELSE ret.v = JSNull

\* {headers: {"Retry-After": "120"}} gives 120000.
C13_Witness ==
    /\ ret.fn = "defaultGetRetryAfterMs"
    /\ arg.headers = Headers(JSUndefined, Str(<<"1", "2", "0">>))
    /\ ret.v = Num(120000)

\* {headers: {"retry-after": "5abc"}} gives 5000.
C13_WitnessPrefix ==
    /\ ret.fn = "defaultGetRetryAfterMs"
    /\ arg.headers = Headers(Str(<<"5", "a", "b", "c">>), JSUndefined)
    /\ ret.v = Num(5000)

\* {headers: {"retry-after": "abc", "Retry-After": 5}} gives null.
C13_WitnessHidden ==
    /\ ret.fn = "defaultGetRetryAfterMs"
    /\ arg.headers = Headers(Str(<<"a", "b", "c">>), Num(5))
    /\ ret.v = JSNull

(***************************************************************************)
(* C14.  The j-th line of a call reads                                     *)
(*   "{prefix}Transient error, retrying in {delay}ms (attempt {n}/{maxRetries})" *)
(* where delay is the delay slept next (the j-th delay), n = j with        *)
(* 1 <= n <= maxRetries, and prefix is "{label}: " if a label was supplied *)
(* and empty otherwise.                                                    *)
(* As stated this fails for a supplied label that is the empty string: the *)
(* prefix is then empty, not ": ".                                         *)
(***************************************************************************)
Shown(v) == IF v.t = "NaN" THEN "NaN" ELSE ToString(v.n)

LineWith(prefix, c, j) ==
    lines[c][j] = prefix \o "Transient error, retrying in " \o Shown(delays[c][j])
                      \o "ms (attempt " \o ToString(j) \o "/"
                      \o ToString(policy[c].maxRetries) \o ")"

OneLinePerDelay(c) ==
    /\ Len(lines[c]) = Len(delays[c])
    /\ Len(lines[c]) <= Max(policy[c].maxRetries, 0)

C14_AsStated ==
    \A c \in Calls :
        /\ OneLinePerDelay(c)
        /\ \A j \in 1..Len(lines[c]) :
              LineWith(IF "label" \in DOMAIN options[c]
                       THEN options[c].label \o ": " ELSE "", c, j)

\* C14 amended: as stated, with prefix "{label}: " if a non-empty label was
\* supplied and empty otherwise (no label, or the empty string).
C14_Amended ==
    \A c \in Calls :
        /\ OneLinePerDelay(c)
        /\ \A j \in 1..Len(lines[c]) :
              LineWith(IF "label" \in DOMAIN options[c] /\ options[c].label # ""
                       THEN options[c].label \o ": " ELSE "", c, j)

\* label "MyAPI", maxRetries 2, delays of 400 ms and 800 ms.
C14_Witness ==
    \E c \in Calls :
        lines[c] = << "MyAPI: Transient error, retrying in 400ms (attempt 1/2)",
                      "MyAPI: Transient error, retrying in 800ms (attempt 2/2)" >>

\* label "": the line has no prefix.
C14_WitnessEmptyLabel ==
    \E c \in Calls :
        /\ "label" \in DOMAIN options[c] /\ options[c].label = ""
        /\ lines[c] = << "Transient error, retrying in 1000ms (attempt 1/1)" >>

(***************************************************************************)
(* C15.  Fields the caller leaves unset take the defaults maxRetries = 10, *)
(* initialDelayMs = 1000, maxDelayMs = 30000.  A call without options      *)
(* whose operation always fails retryably and without a hint invokes the   *)
(* operation exactly 11 times and sleeps 1000, 2000, 4000, 8000, 16000,    *)
(* 30000, 30000, 30000, 30000, 30000 ms, in this order.                    *)
(***************************************************************************)
\* Every invocation so far failed, was accepted, and carried no hint.
AlwaysFailsRetryablyNoHint(c) ==
    \A k \in 1..Len(hist[c]) :
        /\ Outcome(c, k).kind = "rejected"
        /\ Outcome(c, k).verdict = "true"
        /\ Outcome(c, k).hint \in {JSNull, Unasked}

C15_Defaults ==
    \A c \in Calls :
        Started(c) =>
            /\ "maxRetries" \notin DOMAIN options[c] => policy[c].maxRetries = 10
            /\ "initialDelayMs" \notin DOMAIN options[c] => policy[c].initialDelayMs = 1000
            /\ "maxDelayMs" \notin DOMAIN options[c] => policy[c].maxDelayMs = 30000
            /\ options[c] = <<>> /\ Done(c) /\ AlwaysFailsRetryablyNoHint(c) =>
                  /\ invocations[c] = 11
                  /\ delays[c] = << Num(1000), Num(2000), Num(4000), Num(8000), Num(16000),
                                    Num(30000), Num(30000), Num(30000), Num(30000),
                                    Num(30000) >>

\* No options, eleven failures with status 503.
C15_Witness ==
    \E c \in Calls :
        /\ options[c] = <<>> /\ Done(c) /\ AlwaysFailsRetryablyNoHint(c)
        /\ Len(hist[c]) = 11
        /\ \A k \in 1..11 : Outcome(c, k).error = E503
        /\ Len(delays[c]) = 10 /\ delays[c][10] = Num(30000)

(***************************************************************************)
(* C16.  Calls share no state.  Whatever the interleaving of concurrent    *)
(* calls and whatever calls came before, the attempt index, the delays,    *)
(* the lines and the result of a call are determined by its own options    *)
(* and the outcomes of its own operation; a call starts with its full      *)
(* budget whatever state the other calls are in; and withRetry leaves the  *)
(* options record it was given as it was.                                  *)
(***************************************************************************)
\* The k-th outcome of call c was followed by a retry.
Retried(c, k) ==
    /\ Outcome(c, k).kind = "rejected" /\ Outcome(c, k).verdict = "true"
    /\ k <= policy[c].maxRetries
    /\ Outcome(c, k).hint # HintThrows

Retries(c) == Cardinality({k \in 1..Len(hist[c]) : Retried(c, k)})

OwnPrefix(c) ==
    IF "label" \in DOMAIN options[c] /\ options[c].label # ""
    THEN options[c].label \o ": " ELSE ""

\* What call c has done so far, told from its own options and outcomes.
OwnCourse(c) ==
    /\ policy[c].maxRetries =
          IF "maxRetries" \in DOMAIN options[c] THEN options[c].maxRetries ELSE 10
    /\ policy[c].initialDelayMs =
          IF "initialDelayMs" \in DOMAIN options[c] THEN options[c].initialDelayMs ELSE 1000
    /\ policy[c].maxDelayMs =
          IF "maxDelayMs" \in DOMAIN options[c] THEN options[c].maxDelayMs ELSE 30000
    /\ attempt[c] = IF pc[c] = "sleeping" THEN Retries(c) - 1 ELSE Retries(c)
    /\ invocations[c] = IF policy[c].maxRetries < 0 THEN 0 ELSE attempt[c] + 1
    /\ Len(hist[c]) = IF pc[c] = "awaitFn" THEN invocations[c] - 1 ELSE invocations[c]
    /\ Len(delays[c]) = Retries(c) /\ Len(lines[c]) = Retries(c)
    /\ \A k \in 1..Retries(c) :
          /\ Retried(c, k)
          /\ delays[c][k] = MathMin(Computed(c, k), policy[c].maxDelayMs)
          /\ LineWith(OwnPrefix(c), c, k)
    /\ result[c] =
          IF ~Done(c) THEN Pending
          ELSE IF hist[c] = <<>> THEN Raised("postLoop", NoError)
          ELSE IF LastOutcome(c).kind = "resolved" THEN Returned(LastOutcome(c).value)
          ELSE IF LastOutcome(c).verdict = "true"
          THEN Raised("exhausted", ThrownBy("fn", Len(hist[c]), LastOutcome(c).error))
          ELSE Raised("nonRetryable", ThrownBy("fn", Len(hist[c]), LastOutcome(c).error))

\* In the step that starts call c, it begins at attempt 0 with nothing slept,
\* written or recorded.
StartsAfresh(c) ==
    pc[c] = "idle" /\ pc'[c] # "idle" =>
        /\ attempt'[c] = 0 /\ invocations'[c] = 1
        /\ delays'[c] = <<>> /\ lines'[c] = <<>>
        /\ lastError'[c] = NoError

\* A step that is not the start of call c leaves its options as they were.
OptionsUntouched(c) == Started(c) => options'[c] = options[c]

C16_NoSharedState ==
    /\ [](\A c \in Calls : Started(c) => OwnCourse(c))
    /\ [][\A c \in Calls : StartsAfresh(c) /\ OptionsUntouched(c)]_vars

\* Two calls in flight with different policies: the first sleeps before its
\* retry, the second has used up its budget of 0 retries.
C16_Witness ==
    /\ pc[1] = "sleeping" /\ attempt[1] = 0 /\ policy[1].maxRetries = 1
    /\ delays[1] = <<Num(400)>>
    /\ Done(2) /\ policy[2].maxRetries = 0 /\ result[2].exit = "exhausted"
    /\ invocations[1] = 1 /\ invocations[2] = 1

\* Call 1 has used up its budget; call 2 has its own budget in full and is
\* at its second invocation.
C16_WitnessSuccessive ==
    /\ Done(1) /\ result[1].exit = "exhausted" /\ invocations[1] = 2
    /\ pc[2] = "awaitFn" /\ attempt[2] = 1 /\ invocations[2] = 2

(***************************************************************************)
(* C17.  For every integer maxRetries >= 0 the throw after the loop is     *)
(* unreachable: a completed call left the loop through exactly one of      *)
(* three exits (success return, non-retryable failure, budget-exhausted    *)
(* failure at attempt index maxRetries); the only way on is a retryable    *)
(* failure at an attempt index < maxRetries, then the delay, then the next *)
(* attempt; the throw after the loop is reached only when maxRetries is    *)
(* negative.                                                               *)
(* As stated this fails: an exception thrown by the caller's isRetryable   *)
(* or getRetryAfterMs is a fourth way out of the loop.                     *)
(***************************************************************************)
\* The three exits, each with the condition under which the code takes it.
ThreeExits(c) ==
    \/ /\ result[c].exit = "return"
       /\ LastOutcome(c).kind = "resolved"
    \/ /\ result[c].exit = "nonRetryable"
       /\ LastOutcome(c).kind = "rejected" /\ LastOutcome(c).verdict = "false"
    \/ /\ result[c].exit = "exhausted"
       /\ LastOutcome(c).kind = "rejected" /\ LastOutcome(c).verdict = "true"
       /\ attempt[c] = policy[c].maxRetries

\* The one way on: an accepted failure below the budget, then the delay, then
\* the next attempt.
Continuation(c) ==
    /\ pc[c] = "sleeping" =>
          /\ LastOutcome(c).kind = "rejected" /\ LastOutcome(c).verdict = "true"
          /\ attempt[c] < policy[c].maxRetries
          /\ Len(delays[c]) = attempt[c] + 1
    /\ pc[c] = "awaitFn" /\ attempt[c] > 0 =>
          /\ LastOutcome(c).kind = "rejected" /\ LastOutcome(c).verdict = "true"
          /\ attempt[c] <= policy[c].maxRetries
          /\ Len(delays[c]) = attempt[c]

PostLoopOnlyNegative(c) ==
    Done(c) /\ result[c].exit = "postLoop" => policy[c].maxRetries < 0

C17_AsStated ==
    \A c \in Calls :
        /\ Done(c) /\ policy[c].maxRetries >= 0 => ThreeExits(c)
        /\ Continuation(c)
        /\ PostLoopOnlyNegative(c)

\* C17 amended: for every integer maxRetries >= 0 the throw after the loop is
\* unreachable: a completed call left the loop through exactly one of four
\* exits (success return, non-retryable failure, budget-exhausted failure at
\* attempt index maxRetries, or an exception raised by the caller's isRetryable
\* or getRetryAfterMs); the only continuation is a retryable failure at an
\* attempt index < maxRetries, then the delay, then the next attempt; the throw
\* after the loop is reached only when maxRetries is negative.
C17_Amended ==
    \A c \in Calls :
        /\ Done(c) /\ policy[c].maxRetries >= 0 =>
              \/ ThreeExits(c)
              \/ /\ result[c].exit \in {"isRetryableThrew", "getRetryAfterMsThrew"}
                 /\ RaisesPredicateException(c)
        /\ Continuation(c)
        /\ PostLoopOnlyNegative(c)

\* maxRetries = 1: one continuation, then the budget-exhausted exit at attempt
\* index 1.
C17_Witness ==
    \E c \in Calls :
        /\ Done(c) /\ policy[c].maxRetries = 1
        /\ result[c].exit = "exhausted" /\ attempt[c] = 1
        /\ Len(delays[c]) = 1

(***************************************************************************)
(* C18.  When maxRetries is negative, withRetry never invokes the          *)
(* operation, never sleeps, writes no line, and ends by raising the last   *)
(* recorded failure, which is still the undefined initial value because no *)
(* failure was observed.                                                   *)
(***************************************************************************)
C18_NegativeBudget ==
    \A c \in Calls :
        Started(c) /\ policy[c].maxRetries < 0 =>
            /\ Done(c)
            /\ invocations[c] = 0 /\ hist[c] = <<>> /\ trace[c] = <<>>
            /\ delays[c] = <<>> /\ lines[c] = <<>>
            /\ result[c].kind = "raised" /\ result[c].exit = "postLoop"
            /\ result[c].ref.by = "none"
            /\ result[c].ref.error.t = "undefined"

\* withRetry(fn, {maxRetries: -1, label: "MyAPI"})
C18_Witness ==
    \E c \in Calls :
        /\ Done(c) /\ "maxRetries" \in DOMAIN options[c] /\ options[c].maxRetries = -1
        /\ "label" \in DOMAIN options[c] /\ options[c].label = "MyAPI"
        /\ invocations[c] = 0 /\ result[c].kind = "raised"

(***************************************************************************)
(* C20.  If the operation fails j times with failures isRetryable accepts  *)
(* (j < maxRetries) and then with a failure isRetryable rejects, withRetry *)
(* propagates that (j+1)-th failure at once: exactly j + 1 invocations,    *)
(* j delays and j lines, and nothing is slept after the rejected failure   *)
(* although budget remains.                                                *)
(***************************************************************************)
AcceptedThenRejected(c, j) ==
    /\ Len(hist[c]) >= j + 1
    /\ \A i \in 1..j : Outcome(c, i).kind = "rejected" /\ Outcome(c, i).verdict = "true"
    /\ Outcome(c, j + 1).kind = "rejected" /\ Outcome(c, j + 1).verdict = "false"
    /\ j < policy[c].maxRetries

C20_RejectedAfterRetries ==
    \A c \in Calls : \A j \in 0..Len(hist[c]) :
        AcceptedThenRejected(c, j) =>
            /\ Done(c)
            /\ Len(hist[c]) = j + 1
            /\ result[c] =
                  Raised("nonRetryable", ThrownBy("fn", j + 1, Outcome(c, j + 1).error))
            /\ invocations[c] = j + 1
            /\ Len(delays[c]) = j /\ Len(lines[c]) = j
            /\ attempt[c] = j
            /\ trace[c][Len(trace[c])] \notin {"sleep", "console.error"}

\* maxRetries = 2: a 503 is retried, then a 404 is propagated with one retry
\* left in the budget.
C20_Witness ==
    \E c \in Calls :
        /\ policy[c].maxRetries = 2 /\ policy[c].isRetryable = "default"
        /\ AcceptedThenRejected(c, 1)
        /\ Outcome(c, 1).error = E503 /\ Outcome(c, 2).error = E404
        /\ Done(c) /\ invocations[c] = 2 /\ Len(delays[c]) = 1

(***************************************************************************)
(* C19.  In every execution any two consecutive invocations of the         *)
(* operation are separated by exactly one line followed by exactly one     *)
(* delay (the line is written before the sleep starts, and the attempt     *)
(* index is incremented only after the sleep has ended), and the failing   *)
(* attempt that ends the call is followed by neither a line nor a delay.   *)
(***************************************************************************)
IsStep(x) == x \in {"fn", "console.error", "sleep"}

\* The invocations, lines and sleeps of call c, in the order they happened.
Steps(c) == SelectSeq(trace[c], IsStep)

Count(seq, x) == Cardinality({i \in 1..Len(seq) : seq[i] = x})

C19_LineThenDelay ==
    \A c \in Calls :
        LET steps == Steps(c)
        IN  /\ \A i \in 1..Len(steps) :
                  steps[i] = IF i % 3 = 1 THEN "fn"
                             ELSE IF i % 3 = 2 THEN "console.error"
                             ELSE "sleep"
            /\ Count(steps, "fn") = invocations[c]
            /\ Count(steps, "console.error") = Len(lines[c])
            /\ Count(steps, "sleep") = Len(delays[c])
            /\ pc[c] = "sleeping" =>
                  /\ steps # <<>> /\ steps[Len(steps)] = "sleep"
                  /\ attempt[c] = Len(delays[c]) - 1
            /\ pc[c] = "awaitFn" =>
                  /\ steps[Len(steps)] = "fn"
                  /\ attempt[c] = Len(delays[c])
            /\ Done(c) /\ invocations[c] >= 1 =>
                  /\ steps[Len(steps)] = "fn"
                  /\ Len(lines[c]) = invocations[c] - 1
                  /\ Len(delays[c]) = invocations[c] - 1

\* Three invocations, the last one exhausting the budget: between them twice a
\* line and a delay, after the last nothing.
C19_Witness ==
    \E c \in Calls :
        /\ Done(c) /\ result[c].exit = "exhausted"
        /\ Steps(c) = << "fn", "console.error", "sleep",
                         "fn", "console.error", "sleep", "fn" >>

(***************************************************************************)
(* C21.  The backoff term depends on the attempt index alone: when an      *)
(* earlier retry of the call took its delay from a hint, a later retry at  *)
(* attempt index a without a hint sleeps min(initialDelayMs * 2^a,         *)
(* maxDelayMs), as if no hint had been seen; hints are not accumulated,    *)
(* averaged or carried over.                                               *)
(***************************************************************************)
\* The k-th retry of call c had a hint (a number, NaN included).
Hinted(c, k) == Outcome(c, k).hint.t \in {"number", "NaN"}

C21_HintNotCarried ==
    \A c \in Calls : \A k \in 1..Len(delays[c]) :
        /\ Outcome(c, k).hint = JSNull
        /\ \E i \in 1..(k - 1) : Hinted(c, i)
        => delays[c][k] =
              Num(Min(policy[c].initialDelayMs * 2^(k - 1), policy[c].maxDelayMs))

\* Header retry-after "5" on the first failure, none on the second, defaults
\* otherwise: 5000 ms, then 1000 * 2^1 ms.
C21_Witness ==
    \E c \in Calls :
        /\ policy[c].getRetryAfterMs = "default"
        /\ Len(delays[c]) = 2
        /\ Outcome(c, 1).error = E503After5 /\ Outcome(c, 2).error = E503
        /\ delays[c] = <<Num(5000), Num(2000)>>

(***************************************************************************)
(* C22.  At every invocation of the operation the attempt index a          *)
(* satisfies 0 <= a <= maxRetries, the call has made a + 1 invocations,    *)
(* a delays and a lines so far; the index starts at 0 and only ever        *)
(* increases, by exactly 1.                                                *)
(***************************************************************************)
\* The operation of call c has been invoked and has not settled yet.
Invoking(c) == pc[c] = "awaitFn"

AtInvocation(c) ==
    Invoking(c) =>
        /\ 0 <= attempt[c] /\ attempt[c] <= policy[c].maxRetries
        /\ invocations[c] = attempt[c] + 1
        /\ Len(delays[c]) = attempt[c]
        /\ Len(lines[c]) = attempt[c]

\* In any step the index of call c is set to 0 by the start of the call, or
\* stays, or grows by 1.
IndexSteps(c) ==
    /\ ~Started(c) /\ Started(c)' => attempt'[c] = 0
    /\ Started(c) => attempt'[c] \in {attempt[c], attempt[c] + 1}

C22_AttemptIndex ==
    /\ [](\A c \in Calls : AtInvocation(c))
    /\ [][\A c \in Calls : IndexSteps(c)]_vars

\* The third invocation of a call with maxRetries = 2: index 2, two delays and
\* two lines behind it.
C22_Witness ==
    \E c \in Calls :
        /\ Invoking(c) /\ policy[c].maxRetries = 2
        /\ attempt[c] = 2 /\ invocations[c] = 3
        /\ Len(delays[c]) = 2 /\ Len(lines[c]) = 2

(***************************************************************************)
(* C23.  While an invocation of the operation has not completed, the       *)
(* withRetry call that made it does not complete and makes no further      *)
(* invocation, delay or line, whatever else happens: withRetry sets no     *)
(* timeout on the operation and leaves the wait only when the operation    *)
(* completes.  An operation that never completes thus holds its call for   *)
(* ever.                                                                   *)
(***************************************************************************)
\* A step in which the operation awaited by call c does not settle.
StillAwaited(c) == Invoking(c) /\ Len(hist'[c]) = Len(hist[c])

HeldByOperation(c) ==
    StillAwaited(c) =>
        /\ pc'[c] = "awaitFn"
        /\ result'[c] = Pending
        /\ invocations'[c] = invocations[c]
        /\ delays'[c] = delays[c] /\ lines'[c] = lines[c]
        /\ trace'[c] = trace[c] /\ attempt'[c] = attempt[c]

C23_HangsWithOperation == [][\A c \in Calls : HeldByOperation(c)]_vars

\* Call 1 still awaits its first invocation while call 2 has retried and
\* finished.
C23_Witness ==
    /\ Invoking(1) /\ hist[1] = <<>> /\ invocations[1] = 1
    /\ Done(2) /\ invocations[2] = 2 /\ Len(delays[2]) = 1

(***************************************************************************)
(* C24.  withRetry is deterministic in its inputs: two calls given the     *)
(* same policy and the same sequence of operation outcomes (with the same  *)
(* answers of the predicate and of the hint extractor) invoke the          *)
(* operation the same number of times, sleep the same delays, write the    *)
(* same lines and end with the same value or failure.                      *)
(***************************************************************************)
SameInputs(c, d) == options[c] = options[d] /\ hist[c] = hist[d]

C24_Deterministic ==
    \A c, d \in Calls :
        Started(c) /\ Started(d) /\ SameInputs(c, d) =>
            /\ delays[c] = delays[d]
            /\ lines[c] = lines[d]
            /\ Done(c) /\ Done(d) =>
                  /\ invocations[c] = invocations[d]
                  /\ result[c] = result[d]

\* Two finished calls with the same options, both given a 503 with header
\* retry-after "5" and then a 404.
C24_Witness ==
    /\ Done(1) /\ Done(2) /\ SameInputs(1, 2)
    /\ Len(hist[1]) = 2
    /\ Outcome(1, 1).error = E503After5 /\ Outcome(1, 2).error = E404
    /\ delays[1] = <<Num(5000)>> /\ delays[2] = <<Num(5000)>>
    /\ result[2].exit = "nonRetryable"

(***************************************************************************)
(* C25.  For non-negative initialDelayMs and maxDelayMs every delay that   *)
(* withRetry sleeps and reports lies in 0..maxDelayMs, whatever the hint   *)
(* is (hints from negative or zero header values included).                *)
(* As stated this fails: the delay is min(hint, maxDelayMs), which has no  *)
(* lower bound; the header retry-after "-1" gives a delay of -1000 ms, and *)
(* a hint of NaN gives NaN.                                                *)
(***************************************************************************)
NonNegativePolicy(c) == policy[c].initialDelayMs >= 0 /\ policy[c].maxDelayMs >= 0

InRange(v, lo, hi) == v.t = "number" /\ lo <= v.n /\ v.n <= hi

\* The k-th line of call c reports the delay v.
Reports(c, k, v) == LineWith(OwnPrefix(c), c, k) /\ delays[c][k] = v

C25_AsStated ==
    \A c \in Calls : \A k \in 1..Len(delays[c]) :
        NonNegativePolicy(c) =>
            /\ InRange(delays[c][k], 0, policy[c].maxDelayMs)
            /\ Reports(c, k, delays[c][k])

\* C25 amended: for non-negative initialDelayMs and maxDelayMs, no delay that
\* withRetry sleeps and reports exceeds maxDelayMs.  The delay lies in
\* 0..maxDelayMs when the failure has no hint or a hint that is a non-negative
\* number (zero included); a negative hint h gives the negative delay h, and a
\* hint of NaN gives NaN.
C25_Amended ==
    \A c \in Calls : \A k \in 1..Len(delays[c]) :
        NonNegativePolicy(c) =>
            LET h == Outcome(c, k).hint
                d == delays[c][k]
            IN  /\ d.t = "number" => d.n <= policy[c].maxDelayMs
                /\ Nullish(h) \/ (h.t = "number" /\ h.n >= 0) =>
                      InRange(d, 0, policy[c].maxDelayMs)
                /\ h.t = "number" /\ h.n < 0 => d = h
                /\ h.t = "NaN" => d = JSNaN
                /\ Reports(c, k, d)

\* A hint of 0: the delay is 0.
C25_Witness ==
    \E c \in Calls :
        /\ NonNegativePolicy(c)
        /\ Len(delays[c]) >= 1 /\ Outcome(c, 1).hint = Num(0)
        /\ delays[c][1] = Num(0)

\* {status: 503, headers: {"retry-after": "-1"}} under the defaults: the
\* delay slept and reported is -1000 ms.
C25_WitnessNegative ==
    \E c \in Calls :
        /\ options[c] = <<>>
        /\ Len(delays[c]) >= 1 /\ Outcome(c, 1).error = E503AfterMinus1
        /\ delays[c][1] = Num(-1000)
        /\ lines[c][1] = "Transient error, retrying in -1000ms (attempt 1/10)"

(***************************************************************************)
(* C26.  For each failed invocation isRetryable is consulted exactly once, *)
(* before the budget check (so also for the failure of the last permitted  *)
(* attempt); getRetryAfterMs is consulted exactly once per retry taken and *)
(* never for a failure that is propagated (non-retryable or                *)
(* budget-exhausting).                                                     *)
(* As stated this fails when the caller's getRetryAfterMs raises: it was   *)
(* consulted for a failure after which no retry is taken.                  *)
(***************************************************************************)
Failed(c) == {k \in 1..Len(hist[c]) : Outcome(c, k).kind = "rejected"}

\* isRetryable: once per failed invocation, right after it, and decisive even
\* on the last permitted attempt.
PredicateConsulted(c) ==
    /\ Count(trace[c], "isRetryable") = Cardinality(Failed(c))
    /\ \A i \in 1..Len(trace[c]) :
          trace[c][i] = "isRetryable" => i > 1 /\ trace[c][i - 1] = "fn"
    /\ \A k \in Failed(c) :
          /\ Outcome(c, k).verdict \in CustomVerdicts
          /\ Outcome(c, k).verdict = "false" =>
                Done(c) /\ k = Len(hist[c]) /\ result[c].exit = "nonRetryable"

\* getRetryAfterMs: only after isRetryable accepted, and not for a failure
\* that is propagated.
ExtractorConsulted(c) ==
    /\ \A i \in 1..Len(trace[c]) :
          trace[c][i] = "getRetryAfterMs" => i > 1 /\ trace[c][i - 1] = "isRetryable"
    /\ \A k \in Failed(c) :
          /\ Outcome(c, k).hint # Unasked => Outcome(c, k).verdict = "true"
          /\ Done(c) /\ k = Len(hist[c]) /\ result[c].exit \in {"nonRetryable", "exhausted"}
                => Outcome(c, k).hint = Unasked
          /\ Retried(c, k) => Outcome(c, k).hint # Unasked

C26_AsStated ==
    \A c \in Calls :
        /\ PredicateConsulted(c)
        /\ ExtractorConsulted(c)
        /\ Count(trace[c], "getRetryAfterMs") = Len(delays[c])

\* C26 amended: for each failed invocation, isRetryable is consulted exactly
\* once and before the budget check (so it is also consulted for the failure
\* of the final permitted attempt); getRetryAfterMs is consulted exactly once
\* per retry actually taken, once more for a failure on which it raises (which
\* ends the call without a retry), and never for a failure that is propagated
\* (non-retryable or budget-exhausting).
C26_Amended ==
    \A c \in Calls :
        /\ PredicateConsulted(c)
        /\ ExtractorConsulted(c)
        /\ Count(trace[c], "getRetryAfterMs") =
              Len(delays[c]) + (IF result[c].exit = "getRetryAfterMsThrew" THEN 1 ELSE 0)

\* maxRetries = 1: two failures, isRetryable asked twice, getRetryAfterMs once;
\* the second failure is rejected on the last permitted attempt.
C26_Witness ==
    \E c \in Calls :
        /\ Done(c) /\ policy[c].maxRetries = 1
        /\ trace[c] = << "fn", "isRetryable", "getRetryAfterMs", "console.error", "sleep",
                         "fn", "isRetryable" >>
        /\ Outcome(c, 2).verdict = "false" /\ result[c].exit = "nonRetryable"

(***************************************************************************)
(* C27.  If a caller-supplied isRetryable or getRetryAfterMs raises while  *)
(* a failure is handled, withRetry ends at once raising that exception:    *)
(* the operation is not invoked again, nothing is slept or written for     *)
(* that failure, and the failure of the operation is not what the caller   *)
(* receives.                                                               *)
(***************************************************************************)
\* The predicate that raised while the k-th outcome of call c was handled.
RaisedWhileHandling(c, k) ==
    IF Outcome(c, k).kind # "rejected" THEN "none"
    ELSE IF Outcome(c, k).verdict = "throws" THEN "isRetryable"
    ELSE IF Outcome(c, k).hint = HintThrows THEN "getRetryAfterMs"
    ELSE "none"

C27_PredicateRaises ==
    \A c \in Calls : \A k \in 1..Len(hist[c]) :
        RaisedWhileHandling(c, k) # "none" =>
            /\ Done(c)
            /\ k = Len(hist[c]) /\ invocations[c] = k
            /\ Len(delays[c]) = k - 1 /\ Len(lines[c]) = k - 1
            /\ trace[c][Len(trace[c])] = RaisedWhileHandling(c, k)
            /\ result[c].kind = "raised"
            /\ result[c].ref.by = RaisedWhileHandling(c, k)
            /\ result[c].ref # ThrownBy("fn", k, Outcome(c, k).error)
            /\ lastError[c] = ThrownBy("fn", k, Outcome(c, k).error)

\* getRetryAfterMs raises on the second failure of a call that had retried
\* once, with budget left.
C27_Witness ==
    \E c \in Calls :
        /\ policy[c].maxRetries = 2 /\ Len(hist[c]) = 2
        /\ RaisedWhileHandling(c, 2) = "getRetryAfterMs"
        /\ Done(c) /\ invocations[c] = 2 /\ Len(delays[c]) = 1
        /\ result[c].ref.by = "getRetryAfterMs"

\* isRetryable raises on the first failure.
C27_WitnessPredicate ==
    \E c \in Calls :
        /\ Len(hist[c]) = 1 /\ RaisedWhileHandling(c, 1) = "isRetryable"
        /\ Done(c) /\ result[c].ref.by = "isRetryable" /\ delays[c] = <<>>

====
